---- MODULE Spec2Model ----
(***************************************************************************)
(* Frame loops of the joelrael-dev.github.io visualisations.               *)
(*                                                                         *)
(*   js/net.js             canvas particle network (Particle, animate)     *)
(*   unnamed/part_000      colour-wave PDB viewer (loadMolecule,           *)
(*                         updateColors, animate)                          *)
(*   unnamed/part_001      instanced-sphere PDB viewer (first script)      *)
(*   js/protein-viewer.js  OBJ viewer (init, onWindowResize, animate)      *)
(*                                                                         *)
(* Coordinates are whole pixels (a sub-grid of the floats the scripts      *)
(* use), times are tenths of a second, hues are ten-thousandths.           *)
(* Every script is single threaded: a handler runs to completion, so each  *)
(* handler is one action.                                                  *)
(***************************************************************************)
EXTENDS Integers, Sequences, FiniteSets, TLC

VARIABLES
    page,              \* which of the four pages this browsing context shows
    \* ---- js/net.js ----
    canvas,            \* [width, height]            net.js:4-5
    titleBox,          \* [left, top, width, height] net.js:9
    particlesArray,    \* sequence of Particle       net.js:7
    strokes,           \* connector-line work of the last animate() call
    netStarted,        \* animate() has been called at net.js:103
    netRaf,            \* pending requestAnimationFrame(animate) callbacks
    netFrames,         \* animate() calls made so far on the canvas page
    netTick,           \* what the last animate() call of net.js did
    \* ---- unnamed/part_000 ----
    waveStarted,       \* init() has run (part_000:203)
    waveLoad,          \* "none" | "pending" | "loaded" | "failed"
    waveLoads,         \* number of loader.load calls made
    infoText,          \* text of the #info element
    atomMeshes,        \* part_000:7
    colors,            \* colour attribute of the loaded geometry (hues)
    needsUpdate,       \* colorsAttribute.needsUpdate
    elapsedTime,       \* clock.getElapsedTime(), tenths of a second
    waveRaf,           \* pending requestAnimationFrame(animate) callbacks
    waveTick,          \* what the last animate() call of part_000 did
    \* ---- js/protein-viewer.js ----
    objPage,           \* [container: BOOLEAN] the hosting page
    objStarted,        \* the script has run (protein-viewer.js:117-121)
    objRenderer,       \* renderer has been created
    objListener,       \* resize listener registered
    objLoad,           \* "none" | "pending" | "loaded" | "failed"
    objLoads,          \* number of loader.load calls made
    objScene,          \* number of loaded objects in the scene
    objErrorMsg,       \* error paragraph appended to the container
    objSize,           \* renderer size index set by the last resize
    objRaf,            \* pending requestAnimationFrame(animate) callbacks
    objTick,           \* what the last animate() call did
    \* ---- unnamed/part_001 (instanced viewer) ----
    instStarted,
    instLoad,
    instInfo,
    instRaf,
    instTick

netVars  == <<canvas, titleBox, particlesArray, strokes, netStarted, netRaf,
              netFrames, netTick>>
waveVars == <<waveStarted, waveLoad, waveLoads, infoText, atomMeshes, colors,
              needsUpdate, elapsedTime, waveRaf, waveTick>>
objVars  == <<objPage, objStarted, objRenderer, objListener, objLoad, objLoads,
              objScene, objErrorMsg, objSize, objRaf, objTick>>
instVars == <<instStarted, instLoad, instInfo, instRaf, instTick>>
vars     == <<page, netVars, waveVars, objVars, instVars>>

-----------------------------------------------------------------------------
(* Bounds of the model                                                     *)

NumParticles == 2      \* particles created by init (the script creates 30)
MaxFrames    == 40     \* frames of the canvas animation that are explored
MaxTime      == 24     \* the clock saturates here (tenths of a second)
MaxAtoms     == 3      \* atoms of a loaded molecule

(* Program constants                                                       *)

radius       == 2      \* net.js:63
margin       == 10     \* net.js:45-51
maxDistance  == 250    \* net.js:87

-----------------------------------------------------------------------------
(* js/net.js : Particle                                                    *)

Particle(x, y, dx, dy) ==
    [x |-> x, y |-> y, radius |-> radius,
     directionX |-> dx, directionY |-> dy, collision |-> FALSE]

\* a sign slip in the move: the position steps against the velocity
Move_Subtract(p) ==
    [p EXCEPT !.x = p.x - p.directionX, !.y = p.y - p.directionY]

\* this.x += this.directionX; this.y += this.directionY
Move(p) ==
    [p EXCEPT !.x = p.x + p.directionX, !.y = p.y + p.directionY]

\* a wall that stops the particle on its axis instead of reflecting it
WallBounce_Absorb(p, cv) ==
    LET hitX == \/ p.x + p.radius + p.directionX >= cv.width
                \/ p.x - p.radius + p.directionX <= 0
        hitY == \/ p.y + p.radius + p.directionY >= cv.height
                \/ p.y - p.radius + p.directionY <= 0
    IN  [p EXCEPT !.directionX = IF hitX THEN 0 ELSE p.directionX,
                  !.directionY = IF hitY THEN 0 ELSE p.directionY]

\* the wall tests made on the position the particle had before the move
WallBounce_PreMove(p, cv) ==
    LET hitX == \/ p.x + p.radius >= cv.width
                \/ p.x - p.radius <= 0
        hitY == \/ p.y + p.radius >= cv.height
                \/ p.y - p.radius <= 0
    IN  [p EXCEPT !.directionX = IF hitX THEN -p.directionX ELSE p.directionX,
                  !.directionY = IF hitY THEN -p.directionY ELSE p.directionY]

\* the two wall tests, applied to the position Move has just produced
WallBounce(p, cv) ==
    LET hitX == \/ p.x + p.radius + p.directionX >= cv.width
                \/ p.x - p.radius + p.directionX <= 0
        hitY == \/ p.y + p.radius + p.directionY >= cv.height
                \/ p.y - p.radius + p.directionY <= 0
    IN  [p EXCEPT !.directionX = IF hitX THEN -p.directionX ELSE p.directionX,
                  !.directionY = IF hitY THEN -p.directionY ELSE p.directionY]

\* the overlap test of the inflated circle with the title rectangle
Colliding(p, box) ==
    /\ p.x + p.radius > box.left
    /\ p.x - p.radius < box.left + box.width
    /\ p.y + p.radius > box.top
    /\ p.y - p.radius < box.top + box.height

\* the else-if chain with the top and bottom tests ahead of left and right
ObstacleBounce_TopFirst(p, box) ==
    LET c == Colliding(p, box)
        q == [p EXCEPT !.collision = c]
    IN  IF c /\ q.y + q.radius < box.top + margin
          THEN [q EXCEPT !.directionY = -q.directionY]
        ELSE IF c /\ q.y - q.radius > box.top + box.height - margin
          THEN [q EXCEPT !.directionY = -q.directionY]
        ELSE IF c /\ q.x + q.radius < box.left + margin
          THEN [q EXCEPT !.directionX = -q.directionX]
        ELSE IF c /\ q.x - q.radius > box.left + box.width - margin
          THEN [q EXCEPT !.directionX = -q.directionX]
        ELSE q

\* collision flag, then the if / else-if chain: left, right, top, bottom
ObstacleBounce(p, box) ==
    LET c == Colliding(p, box)
        q == [p EXCEPT !.collision = c]
    IN  IF c /\ q.x + q.radius < box.left + margin
          THEN [q EXCEPT !.directionX = -q.directionX]
        ELSE IF c /\ q.x - q.radius > box.left + box.width - margin
          THEN [q EXCEPT !.directionX = -q.directionX]
        ELSE IF c /\ q.y + q.radius < box.top + margin
          THEN [q EXCEPT !.directionY = -q.directionY]
        ELSE IF c /\ q.y - q.radius > box.top + box.height - margin
          THEN [q EXCEPT !.directionY = -q.directionY]
        ELSE q

\* Particle.update()
Update(p, cv, box) == ObstacleBounce(WallBounce(Move(p), cv), box)

-----------------------------------------------------------------------------
(* js/net.js : animate                                                     *)

\* Math.sqrt on the squared distance, rounded down to a whole pixel; the
\* comparison with the whole number maxDistance is exact under this rounding
RECURSIVE SqrtSearch(_, _, _)
SqrtSearch(n, lo, hi) ==
    IF lo >= hi THEN lo
    ELSE LET mid == (lo + hi + 1) \div 2
         IN  IF mid * mid <= n THEN SqrtSearch(n, mid, hi)
                               ELSE SqrtSearch(n, lo, mid - 1)

Sqrt(n) == SqrtSearch(n, 0, 1024)

\* body of the inner loop for the pair (i, j): distance, opacity (in units of
\* 1/maxDistance) and whether the line is stroked
Connector(arr, i, j) ==
    LET dx       == arr[i].x - arr[j].x
        dy       == arr[i].y - arr[j].y
        distance == Sqrt(dx * dx + dy * dy)
    IN  [i |-> i, j |-> j, distance |-> distance,
         opacity |-> maxDistance - distance,
         drawn |-> distance < maxDistance]

\* an inner loop that starts after i and so skips the self-pair
InnerFrom_Next(i) == i + 1

\* for (let j = i; j < particlesArray.length; j++)
InnerFrom(i) == i

RECURSIVE InnerLoop(_, _, _)
InnerLoop(arr, i, j) ==
    IF j > Len(arr) THEN << >>
    ELSE << Connector(arr, i, j) >> \o InnerLoop(arr, i, j + 1)

\* for (let i = 0; ...) { draw(); update(); inner loop }
RECURSIVE OuterLoop(_, _, _, _)
OuterLoop(arr, i, cv, box) ==
    IF i > Len(arr) THEN [arr |-> arr, strokes |-> << >>]
    ELSE LET arr1 == [arr EXCEPT ![i] = Update(arr[i], cv, box)]
             here == InnerLoop(arr1, i, InnerFrom(i))
             rest == OuterLoop(arr1, i + 1, cv, box)
         IN  [arr |-> rest.arr, strokes |-> here \o rest.strokes]

\* a second request for the next frame in the same animate() call
NetRequests_Twice == 1 + 1

\* number of requestAnimationFrame(animate) calls made by one animate() call
NetRequests == 1

\* animate(): the body, then the request for the next frame as the last
\* statement.  An exception raised by a canvas call leaves the function
\* before that statement is reached.
NetAnimateBody(throws) ==
    IF throws
      THEN /\ netTick' = [threw |-> TRUE, requests |-> 0]
           /\ UNCHANGED <<particlesArray, strokes>>
      ELSE LET r == OuterLoop(particlesArray, 1, canvas, titleBox)
           IN  /\ particlesArray' = r.arr
               /\ strokes' = r.strokes
               /\ netTick' = [threw |-> FALSE, requests |-> NetRequests]

\* the canvas, the title rectangle and the particles init() may have created
\* (x = Math.random() * width, y = Math.random() * height, random directions)
Worlds ==
    { \* a 100 x 100 canvas with the title in the middle
      [canvas   |-> [width |-> 100, height |-> 100],
       titleBox |-> [left |-> 30, top |-> 40, width |-> 40, height |-> 20],
       starts   |-> { <<5, 5, -1, -1>>, <<20, 45, 1, 0>>, <<50, 30, 0, 1>>,
                      <<33, 37, 1, 1>>, <<80, 52, -2, 1>>, <<96, 97, 1, 1>>,
                      <<50, 70, 1, -2>>, <<65, 66, -1, -1>>, <<0, 50, -2, 0>>,
                      <<49, 51, 1, -1>> }],
      \* a small canvas whose title touches the left and top walls
      [canvas   |-> [width |-> 24, height |-> 24],
       titleBox |-> [left |-> 0, top |-> 0, width |-> 20, height |-> 12],
       starts   |-> { <<3, 6, -2, 0>>, <<12, 20, 1, -2>>, <<22, 3, -1, 1>>,
                      <<0, 23, -2, 1>>, <<9, 9, -1, -1>>, <<18, 15, 1, 1>>,
                      <<6, 17, 0, -1>>, <<23, 12, -2, -2>> }],
      \* a wide canvas whose title lies below the visible area
      [canvas   |-> [width |-> 300, height |-> 12],
       titleBox |-> [left |-> 140, top |-> 40, width |-> 20, height |-> 10],
       starts   |-> { <<2, 6, 1, 0>>, <<290, 6, -2, 0>>, <<150, 3, 0, 1>>,
                      <<299, 11, 1, -1>> }] }

NoCanvas == [width |-> 0, height |-> 0]
NoBox    == [left |-> 0, top |-> 0, width |-> 0, height |-> 0]
NoTick   == [threw |-> FALSE, requests |-> 0]

\* state once init() has filled particlesArray (net.js:1-69), or the
\* untouched state on a page that does not carry the script
NetInit ==
    /\ strokes = << >>
    /\ netStarted = FALSE
    /\ netRaf = 0
    /\ netFrames = 0
    /\ netTick = NoTick
    /\ IF page = "net"
         THEN \E w \in Worlds :
                /\ canvas = w.canvas
                /\ titleBox = w.titleBox
                /\ \E f \in [1 .. NumParticles -> w.starts] :
                     particlesArray =
                       [i \in 1 .. NumParticles |->
                          Particle(f[i][1], f[i][2], f[i][3], f[i][4])]
         ELSE /\ canvas = NoCanvas
              /\ titleBox = NoBox
              /\ particlesArray = << >>

\* animate() called directly at the end of the DOMContentLoaded handler
NetFirstFrame(throws) ==
    /\ page = "net"
    /\ ~netStarted
    /\ netStarted' = TRUE
    /\ NetAnimateBody(throws)
    /\ netRaf' = netRaf + netTick'.requests
    /\ netFrames' = netFrames + 1
    /\ UNCHANGED <<page, canvas, titleBox, waveVars, objVars, instVars>>

\* animate() run by the browser as a frame callback
NetFrame(throws) ==
    /\ page = "net"
    /\ netRaf > 0
    /\ netFrames < MaxFrames
    /\ NetAnimateBody(throws)
    /\ netRaf' = netRaf - 1 + netTick'.requests
    /\ netFrames' = netFrames + 1
    /\ UNCHANGED <<page, canvas, titleBox, netStarted, waveVars, objVars, instVars>>

NetStart == NetFirstFrame(FALSE)
NetAnimate == NetFrame(FALSE)
NetStartThrows == NetFirstFrame(TRUE)
NetAnimateThrows == NetFrame(TRUE)

-----------------------------------------------------------------------------
(* unnamed/part_000 : colour-wave viewer                                   *)

\* y coordinates an atom of the fetched structure may have
YValues == {0, 1, 2}

\* what PDBLoader may hand to the load callback: the atom positions and
\* whether the atom geometry carries a colour attribute
Molecules ==
    { [ys |-> ys, hasColor |-> hc] :
        ys \in UNION { [1 .. n -> YValues] : n \in 1 .. MaxAtoms },
        hc \in BOOLEAN }

\* colour the loader stored for an atom (not a hue written by updateColors)
LoaderColor == -1

RECURSIVE SeqMin(_)
SeqMin(ys) ==
    IF Len(ys) = 1 THEN ys[1]
    ELSE LET m == SeqMin(Tail(ys)) IN IF ys[1] < m THEN ys[1] ELSE m

RECURSIVE SeqMax(_)
SeqMax(ys) ==
    IF Len(ys) = 1 THEN ys[1]
    ELSE LET m == SeqMax(Tail(ys)) IN IF ys[1] > m THEN ys[1] ELSE m

\* a flat molecule normalized to 0 instead of 0.5
NormalizedY_ZeroWhenFlat(y, yMin, yRange) ==
    IF yRange > 0 THEN ((y - yMin) * 1000) \div yRange ELSE 0

\* normalizedY, in thousandths
NormalizedY(y, yMin, yRange) ==
    IF yRange > 0 THEN ((y - yMin) * 1000) \div yRange ELSE 500

\* the hue sum without the % 1.0
Hue_NoWrap(normalizedY, time) == normalizedY + time * 500

\* a colorWaveSpeed of 0.25 in place of 0.5
Hue_HalfSpeed(normalizedY, time) == (normalizedY + time * 250) % 10000

\* (normalizedY * colorWaveFrequency + time * colorWaveSpeed) % 1.0, in
\* ten-thousandths, for a time in tenths of a second
Hue(normalizedY, time) == (normalizedY + time * 500) % 10000

\* the for loop over the atoms of one item
RECURSIVE ColorLoop(_, _, _, _)
ColorLoop(item, time, cols, i) ==
    IF i > Len(item.geometry.ys) THEN cols
    ELSE ColorLoop(item, time,
                   [cols EXCEPT ![i] =
                      Hue(NormalizedY(item.geometry.ys[i], item.yMin, item.yRange),
                          time)],
                   i + 1)

\* needsUpdate assigned after the forEach, whatever the list holds
RECURSIVE UpdateColors_DirtyAlways(_, _, _, _)
UpdateColors_DirtyAlways(items, time, cols, k) ==
    IF k > Len(items)
      THEN [colors |-> cols, writes |-> 0, dirty |-> 1, warns |-> 0]
    ELSE LET item == items[k]
         IN  IF ~item.geometry.hasColor
               THEN LET rest == UpdateColors_DirtyAlways(items, time, cols, k + 1)
                    IN  [rest EXCEPT !.warns = rest.warns + 1]
               ELSE LET done == ColorLoop(item, time, cols, 1)
                        rest == UpdateColors_DirtyAlways(items, time, done, k + 1)
                    IN  [rest EXCEPT !.writes = rest.writes + Len(item.geometry.ys)]

\* a geometry without colour attribute skipped without the console.warn
RECURSIVE UpdateColors_SilentSkip(_, _, _, _)
UpdateColors_SilentSkip(items, time, cols, k) ==
    IF k > Len(items)
      THEN [colors |-> cols, writes |-> 0, dirty |-> 0, warns |-> 0]
    ELSE LET item == items[k]
         IN  IF ~item.geometry.hasColor
               THEN UpdateColors_SilentSkip(items, time, cols, k + 1)
               ELSE LET done == ColorLoop(item, time, cols, 1)
                        rest == UpdateColors_SilentSkip(items, time, done, k + 1)
                    IN  [rest EXCEPT !.writes = rest.writes + Len(item.geometry.ys),
                                     !.dirty  = rest.dirty + 1]

\* updateColors(time): atomMeshes.forEach(...).  The result carries the colour
\* attribute and what the call did: setXYZ calls, needsUpdate assignments and
\* console.warn calls.
RECURSIVE UpdateColors(_, _, _, _)
UpdateColors(items, time, cols, k) ==
    IF k > Len(items)
      THEN [colors |-> cols, writes |-> 0, dirty |-> 0, warns |-> 0]
    ELSE LET item == items[k]
         IN  IF ~item.geometry.hasColor
               THEN LET rest == UpdateColors(items, time, cols, k + 1)
                    IN  [rest EXCEPT !.warns = rest.warns + 1]
               ELSE LET done == ColorLoop(item, time, cols, 1)
                        rest == UpdateColors(items, time, done, k + 1)
                    IN  [rest EXCEPT !.writes = rest.writes + Len(item.geometry.ys),
                                     !.dirty  = rest.dirty + 1]

NoWaveTick ==
    [threw |-> FALSE, requests |-> 0, writes |-> 0, dirty |-> 0, warns |-> 0,
     rendered |-> FALSE]

WaveInit ==
    /\ waveStarted = FALSE
    /\ waveLoad = "none"
    /\ waveLoads = 0
    /\ infoText = ""
    /\ atomMeshes = << >>
    /\ colors = << >>
    /\ needsUpdate = FALSE
    /\ elapsedTime = 0
    /\ waveRaf = 0
    /\ waveTick = NoWaveTick

\* number of requestAnimationFrame(animate) calls made by one animate() call
WaveRequests == 1

\* animate(): the request for the next frame first, then the clock, the
\* controls, updateColors and the render.  An exception raised by
\* controls.update() leaves the function after the request and the clock reads.
WaveAnimateBody(time, throws) ==
    /\ elapsedTime' = time
    /\ IF throws
         THEN /\ waveTick' = [NoWaveTick EXCEPT !.threw = TRUE,
                                                !.requests = WaveRequests]
              /\ UNCHANGED <<colors, needsUpdate>>
         ELSE LET u == UpdateColors(atomMeshes, time, colors, 1)
              IN  /\ colors' = u.colors
                  /\ needsUpdate' = (needsUpdate \/ u.dirty > 0)
                  /\ waveTick' = [threw |-> FALSE, requests |-> WaveRequests,
                                  writes |-> u.writes, dirty |-> u.dirty,
                                  warns |-> u.warns, rendered |-> TRUE]

\* loadMolecule(url): one loader.load call
LoadMolecule ==
    /\ waveLoad' = "pending"
    /\ waveLoads' = waveLoads + 1

\* init() at the end of the script: scene, camera, renderer, controls, the
\* load, the resize listener and the first animate() call
WaveFirstFrame(throws) ==
    /\ page = "wave"
    /\ ~waveStarted
    /\ waveStarted' = TRUE
    /\ LoadMolecule
    /\ WaveAnimateBody(0, throws)
    /\ waveRaf' = waveRaf + waveTick'.requests
    /\ UNCHANGED <<page, infoText, atomMeshes, netVars, objVars, instVars>>

\* time between two frames: a tenth or two of a second, or two seconds when
\* the browser held the callbacks back (a hidden tab)
FrameDeltas == {1, 2, 20}

\* the clock reading of a later frame
LaterTime(dt) == IF elapsedTime + dt > MaxTime THEN MaxTime ELSE elapsedTime + dt

\* animate() run by the browser as a frame callback
WaveFrame(throws) ==
    /\ page = "wave"
    /\ waveRaf > 0
    /\ \E dt \in FrameDeltas : WaveAnimateBody(LaterTime(dt), throws)
    /\ waveRaf' = waveRaf - 1 + waveTick'.requests
    /\ UNCHANGED <<page, waveStarted, waveLoad, waveLoads, infoText, atomMeshes,
                   netVars, objVars, instVars>>

WaveStart == WaveFirstFrame(FALSE)
WaveAnimate == WaveFrame(FALSE)
WaveStartThrows == WaveFirstFrame(TRUE)
WaveAnimateThrows == WaveFrame(TRUE)

\* the load callback of loader.load
WaveLoaded(pdb) ==
    LET yMin == SeqMin(pdb.ys)
        yMax == SeqMax(pdb.ys)
    IN  /\ infoText' = "loaded"
        /\ atomMeshes' = Append(atomMeshes,
                                [geometry |-> pdb, yMin |-> yMin,
                                 yRange |-> yMax - yMin])
        /\ colors' = IF pdb.hasColor
                       THEN [i \in 1 .. Len(pdb.ys) |-> LoaderColor]
                       ELSE << >>
        /\ waveLoad' = "loaded"

WaveLoadOk ==
    /\ page = "wave"
    /\ waveLoad = "pending"
    /\ \E pdb \in Molecules : WaveLoaded(pdb)
    /\ UNCHANGED <<page, waveStarted, waveLoads, needsUpdate, elapsedTime,
                   waveRaf, waveTick, netVars, objVars, instVars>>

\* the progress callback, for an event with lengthComputable
WaveLoadProgress ==
    /\ page = "wave"
    /\ waveLoad = "pending"
    /\ infoText' = "loading"
    /\ UNCHANGED <<page, waveStarted, waveLoad, waveLoads, atomMeshes, colors,
                   needsUpdate, elapsedTime, waveRaf, waveTick,
                   netVars, objVars, instVars>>

\* an error callback that starts the load again
WaveFailed_Retry ==
    /\ infoText' = "error"
    /\ waveLoad' = "pending"
    /\ waveLoads' = waveLoads + 1
    /\ UNCHANGED atomMeshes

\* the error callback
WaveFailed ==
    /\ infoText' = "error"
    /\ waveLoad' = "failed"
    /\ UNCHANGED <<waveLoads, atomMeshes>>

WaveLoadError ==
    /\ page = "wave"
    /\ waveLoad = "pending"
    /\ WaveFailed
    /\ UNCHANGED <<page, waveStarted, colors, needsUpdate, elapsedTime,
                   waveRaf, waveTick, netVars, objVars, instVars>>

-----------------------------------------------------------------------------
(* js/protein-viewer.js : OBJ viewer                                       *)

\* container sizes a resize may leave behind
Sizes == {1, 2}

NoFrame == [threw |-> FALSE, requests |-> 0, rendered |-> FALSE]

ObjInit ==
    /\ objPage \in IF page = "obj" THEN { [container |-> c] : c \in BOOLEAN }
                                   ELSE { [container |-> FALSE] }
    /\ objStarted = FALSE
    /\ objRenderer = FALSE
    /\ objListener = FALSE
    /\ objLoad = "none"
    /\ objLoads = 0
    /\ objScene = 0
    /\ objErrorMsg = FALSE
    /\ objSize = 1
    /\ objRaf = 0
    /\ objTick = NoFrame

\* number of requestAnimationFrame(animate) calls made by one animate() call
ObjRequests == 1

\* animate(): the request first, then controls.update() and the render
ObjAnimateBody(throws) ==
    objTick' = [threw |-> throws, requests |-> ObjRequests, rendered |-> ~throws]

\* the script without the if (renderer) test: animate() is called whether
\* or not init() found the container
ObjFirstFrame_Unguarded(throws) ==
    /\ page = "obj"
    /\ ~objStarted
    /\ objStarted' = TRUE
    /\ IF ~objPage.container
         THEN UNCHANGED <<objRenderer, objListener, objLoad, objLoads>>
         ELSE /\ objRenderer' = TRUE
              /\ objLoad' = "pending"
              /\ objLoads' = objLoads + 1
              /\ objListener' = TRUE
    /\ ObjAnimateBody(throws)
    /\ objRaf' = objRaf + objTick'.requests
    /\ UNCHANGED <<page, objPage, objScene, objErrorMsg, objSize,
                   netVars, waveVars, instVars>>

\* the whole script: init(), then animate() if init created the renderer.
\* init() returns at once when the container element is missing.
ObjFirstFrame(throws) ==
    /\ page = "obj"
    /\ ~objStarted
    /\ objStarted' = TRUE
    /\ IF ~objPage.container
         THEN UNCHANGED <<objRenderer, objListener, objLoad, objLoads, objRaf, objTick>>
         ELSE /\ objRenderer' = TRUE
              /\ objLoad' = "pending"
              /\ objLoads' = objLoads + 1
              /\ objListener' = TRUE
              /\ ObjAnimateBody(throws)
              /\ objRaf' = objRaf + objTick'.requests
    /\ UNCHANGED <<page, objPage, objScene, objErrorMsg, objSize,
                   netVars, waveVars, instVars>>

ObjFrame(throws) ==
    /\ page = "obj"
    /\ objRaf > 0
    /\ ObjAnimateBody(throws)
    /\ objRaf' = objRaf - 1 + objTick'.requests
    /\ UNCHANGED <<page, objPage, objStarted, objRenderer, objListener, objLoad,
                   objLoads, objScene, objErrorMsg, objSize,
                   netVars, waveVars, instVars>>

ObjStart == ObjFirstFrame(FALSE)
ObjAnimate == ObjFrame(FALSE)
ObjStartThrows == /\ objPage.container
                  /\ ObjFirstFrame(TRUE)
ObjAnimateThrows == ObjFrame(TRUE)

\* "Called when resource is loaded": scene.add(object)
ObjLoadOk ==
    /\ page = "obj"
    /\ objLoad = "pending"
    /\ objLoad' = "loaded"
    /\ objScene' = objScene + 1
    /\ UNCHANGED <<page, objPage, objStarted, objRenderer, objListener, objLoads,
                   objErrorMsg, objSize, objRaf, objTick,
                   netVars, waveVars, instVars>>

\* "Called when loading has errors": the message paragraph is appended
ObjFailed ==
    /\ objLoad' = "failed"
    /\ objErrorMsg' = TRUE
    /\ UNCHANGED <<objLoads, objScene>>

ObjLoadError ==
    /\ page = "obj"
    /\ objLoad = "pending"
    /\ ObjFailed
    /\ UNCHANGED <<page, objPage, objStarted, objRenderer, objListener,
                   objSize, objRaf, objTick, netVars, waveVars, instVars>>

\* onWindowResize(), once the listener is registered
ObjResize ==
    /\ page = "obj"
    /\ objListener
    /\ \E size \in Sizes :
         objSize' = IF ~objPage.container THEN objSize ELSE size
    /\ UNCHANGED <<page, objPage, objStarted, objRenderer, objListener, objLoad,
                   objLoads, objScene, objErrorMsg, objRaf, objTick,
                   netVars, waveVars, instVars>>

-----------------------------------------------------------------------------
(* unnamed/part_001 : instanced-sphere viewer (first script of the file)   *)

InstInit ==
    /\ instStarted = FALSE
    /\ instLoad = "none"
    /\ instInfo = ""
    /\ instRaf = 0
    /\ instTick = NoFrame

\* number of requestAnimationFrame(animate) calls made by one animate() call
InstRequests == 1

\* animate(): the request first, then controls.update() and the render
InstAnimateBody(throws) ==
    instTick' = [threw |-> throws, requests |-> InstRequests, rendered |-> ~throws]

\* init(): loadMolecule sets the status text and starts the load, then the
\* first animate() call
InstFirstFrame(throws) ==
    /\ page = "inst"
    /\ ~instStarted
    /\ instStarted' = TRUE
    /\ instInfo' = "loading"
    /\ instLoad' = "pending"
    /\ InstAnimateBody(throws)
    /\ instRaf' = instRaf + instTick'.requests
    /\ UNCHANGED <<page, netVars, waveVars, objVars>>

InstFrame(throws) ==
    /\ page = "inst"
    /\ instRaf > 0
    /\ InstAnimateBody(throws)
    /\ instRaf' = instRaf - 1 + instTick'.requests
    /\ UNCHANGED <<page, instStarted, instLoad, instInfo, netVars, waveVars, objVars>>

InstStart == InstFirstFrame(FALSE)
InstAnimate == InstFrame(FALSE)
InstStartThrows == InstFirstFrame(TRUE)
InstAnimateThrows == InstFrame(TRUE)

InstLoadOk ==
    /\ page = "inst"
    /\ instLoad = "pending"
    /\ instLoad' = "loaded"
    /\ instInfo' = "loaded"
    /\ UNCHANGED <<page, instStarted, instRaf, instTick, netVars, waveVars, objVars>>

InstLoadError ==
    /\ page = "inst"
    /\ instLoad = "pending"
    /\ instLoad' = "failed"
    /\ instInfo' = "error"
    /\ UNCHANGED <<page, instStarted, instRaf, instTick, netVars, waveVars, objVars>>

-----------------------------------------------------------------------------
(* Specifications                                                          *)

Pages == {"net", "wave", "obj", "inst"}

Init ==
    /\ page \in Pages
    /\ NetInit
    /\ WaveInit
    /\ ObjInit
    /\ InstInit

\* the pages with every library call returning normally
Next ==
    \/ NetStart
    \/ NetAnimate
    \/ WaveStart
    \/ WaveAnimate
    \/ WaveLoadOk
    \/ WaveLoadProgress
    \/ WaveLoadError
    \/ ObjStart
    \/ ObjAnimate
    \/ ObjLoadOk
    \/ ObjLoadError
    \/ ObjResize
    \/ InstStart
    \/ InstAnimate
    \/ InstLoadOk
    \/ InstLoadError

Spec == Init /\ [][Next]_vars

\* the same pages when a canvas or library call inside animate() may throw
FaultNext ==
    \/ Next
    \/ NetStartThrows
    \/ NetAnimateThrows
    \/ WaveStartThrows
    \/ WaveAnimateThrows
    \/ ObjStartThrows
    \/ ObjAnimateThrows
    \/ InstStartThrows
    \/ InstAnimateThrows

\* the browser runs a pending frame callback before a later repaint
FrameFairness ==
    /\ WF_vars(NetAnimate \/ NetAnimateThrows)
    /\ WF_vars(WaveAnimate \/ WaveAnimateThrows)
    /\ WF_vars(ObjAnimate \/ ObjAnimateThrows)
    /\ WF_vars(InstAnimate \/ InstAnimateThrows)

FaultSpec == Init /\ [][FaultNext]_vars /\ FrameFairness

-----------------------------------------------------------------------------
(* Properties of js/net.js                                                 *)

Indices == 1 .. Len(particlesArray)

\* a step in which animate() ran its loops over the particles
UpdateStep == netFrames' = netFrames + 1 /\ ~netTick'.threw

\* C1: every particle stays within [-r, width + r] x [-r, height + r],
\* wherever the title rectangle lies and however many updates have run.
C1_BoundedDomain ==
    \A i \in Indices :
        LET p == particlesArray[i]
        IN  /\ -p.radius <= p.x /\ p.x <= canvas.width + p.radius
            /\ -p.radius <= p.y /\ p.y <= canvas.height + p.radius

\* the particle of end-to-end scenario 2 on its canvas
Scenario2(p) ==
    /\ canvas = [width |-> 100, height |-> 100]
    /\ p.x = 5 /\ p.y = 5 /\ p.radius = 2
    /\ p.directionX = -1 /\ p.directionY = -1

\* C2 as stated: one update takes the scenario-2 particle, clear of the title
\* rectangle, to position (6,6) with velocity (1,1).
C2_Scenario2_Stated ==
    [][UpdateStep =>
         \A i \in Indices :
            Scenario2(particlesArray[i]) /\ ~particlesArray'[i].collision =>
               /\ particlesArray'[i].x = 6 /\ particlesArray'[i].y = 6
               /\ particlesArray'[i].directionX = 1
               /\ particlesArray'[i].directionY = 1]_vars

\* C2 as amended: one update takes the scenario-2 particle, clear of the title
\* rectangle, to position (4,4) and leaves its velocity (-1,-1): neither wall
\* test fires, since 4 - 2 - 1 > 0.
C2_Scenario2 ==
    [][UpdateStep =>
         \A i \in Indices :
            Scenario2(particlesArray[i]) /\ ~particlesArray'[i].collision =>
               /\ particlesArray'[i].x = 4 /\ particlesArray'[i].y = 4
               /\ particlesArray'[i].directionX = -1
               /\ particlesArray'[i].directionY = -1]_vars

\* the scenario-2 particle after its first update
C2_Witness ==
    /\ canvas = [width |-> 100, height |-> 100]
    /\ netFrames = 1
    /\ \E i \in Indices :
          /\ particlesArray[i].x = 4 /\ particlesArray[i].y = 4
          /\ particlesArray[i].directionX = -1
          /\ particlesArray[i].directionY = -1
          /\ ~particlesArray[i].collision

\* the wall test of one axis on position pos, velocity d, against limit
WallHit(pos, r, d, limit) == pos + r + d >= limit \/ pos - r + d <= 0

\* C3 as stated: the wall test looks one velocity step ahead of the position
\* the particle has at the start of the tick; when it holds the velocity
\* component after the tick is negated, otherwise it is unchanged (seen on
\* particles the title rectangle does not touch).
C3_LookAhead_Stated ==
    [][UpdateStep =>
         \A i \in Indices :
            LET p == particlesArray[i]
                q == particlesArray'[i]
            IN  ~q.collision =>
                  /\ q.directionX =
                       IF WallHit(p.x, p.radius, p.directionX, canvas.width)
                         THEN -p.directionX ELSE p.directionX
                  /\ q.directionY =
                       IF WallHit(p.y, p.radius, p.directionY, canvas.height)
                         THEN -p.directionY ELSE p.directionY]_vars

\* C3 as amended: the wall test looks one velocity step ahead of the position
\* the particle has after this tick's move, x + dx, which is two steps ahead
\* of its position at the start of the tick; the velocity component after the
\* tick is the negated one when the test holds and the unchanged one
\* otherwise, unless the particle overlaps the title rectangle, where the
\* obstacle handling may negate the component once more.
C3_LookAhead ==
    [][UpdateStep =>
         \A i \in Indices :
            LET p   == particlesArray[i]
                q   == particlesArray'[i]
                wdx == IF WallHit(p.x + p.directionX, p.radius, p.directionX,
                                  canvas.width)
                         THEN -p.directionX ELSE p.directionX
                wdy == IF WallHit(p.y + p.directionY, p.radius, p.directionY,
                                  canvas.height)
                         THEN -p.directionY ELSE p.directionY
            IN  /\ q.x = p.x + p.directionX
                /\ q.y = p.y + p.directionY
                /\ q.directionX = wdx \/ (q.collision /\ q.directionX = -wdx)
                /\ q.directionY = wdy \/ (q.collision /\ q.directionY = -wdy)]_vars

\* a particle started at (5,5) with velocity (-1,-1) after its second update:
\* at x = 3 the test 3 - 2 - 1 <= 0 has negated both components, while the
\* test on its position before the move (4 - 2 - 1 <= 0) does not hold
C3_Witness ==
    /\ canvas = [width |-> 100, height |-> 100]
    /\ netFrames = 2
    /\ \E i \in Indices :
          /\ particlesArray[i].x = 3 /\ particlesArray[i].y = 3
          /\ particlesArray[i].directionX = 1
          /\ particlesArray[i].directionY = 1
          /\ ~particlesArray[i].collision

\* C4: the obstacle handling of one update negates at most one velocity
\* component: dx when the left or else the right margin test holds, dy when
\* neither does and the top or else the bottom margin test holds; it negates
\* nothing when the inflated circle does not overlap the title rectangle.
C4_ObstacleTieBreak ==
    [][UpdateStep =>
         \A i \in Indices :
            LET p   == particlesArray[i]
                q   == particlesArray'[i]
                r   == p.radius
                wdx == IF WallHit(p.x + p.directionX, r, p.directionX, canvas.width)
                         THEN -p.directionX ELSE p.directionX
                wdy == IF WallHit(p.y + p.directionY, r, p.directionY, canvas.height)
                         THEN -p.directionY ELSE p.directionY
                over == /\ q.x + r > titleBox.left
                        /\ q.x - r < titleBox.left + titleBox.width
                        /\ q.y + r > titleBox.top
                        /\ q.y - r < titleBox.top + titleBox.height
                L == q.x + r < titleBox.left + 10
                R == q.x - r > titleBox.left + titleBox.width - 10
                T == q.y + r < titleBox.top + 10
                B == q.y - r > titleBox.top + titleBox.height - 10
            IN  /\ q.collision = over
                /\ ~over => q.directionX = wdx /\ q.directionY = wdy
                /\ over /\ (L \/ R) => q.directionX = -wdx /\ q.directionY = wdy
                /\ over /\ ~(L \/ R) /\ (T \/ B) =>
                      q.directionX = wdx /\ q.directionY = -wdy
                /\ over /\ ~(L \/ R \/ T \/ B) =>
                      q.directionX = wdx /\ q.directionY = wdy]_vars

\* a moving particle that overlaps the title rectangle within the margin of
\* its left edge and of its top edge at once: the tie-break case
C4_Witness ==
    /\ netFrames >= 1
    /\ \E i \in Indices :
          LET q == particlesArray[i]
          IN  /\ q.collision
              /\ q.directionX # 0 /\ q.directionY # 0
              /\ q.x + q.radius < titleBox.left + margin
              /\ q.y + q.radius < titleBox.top + margin

\* C5: one animate() call examines every unordered pair {i, j}, i <= j, the
\* self-pairs included, exactly once; the pair's line is drawn exactly when
\* its distance is below 250, with opacity 1 - d/250 in (0, 1], and a
\* self-pair is always drawn at opacity 1.
C5_Connectors ==
    [][UpdateStep =>
         LET n == Len(particlesArray')
             S == strokes'
         IN  /\ 2 * Len(S) = n * (n + 1)
             /\ \A i \in 1 .. n : \A j \in i .. n :
                   Cardinality({k \in 1 .. Len(S) : S[k].i = i /\ S[k].j = j}) = 1
             /\ \A k \in 1 .. Len(S) :
                   LET e  == S[k]
                       a  == particlesArray'[e.i]
                       b  == IF e.j = e.i THEN a ELSE particlesArray[e.j]
                       d2 == (a.x - b.x) * (a.x - b.x) + (a.y - b.y) * (a.y - b.y)
                   IN  /\ e.i <= e.j
                       /\ e.distance * e.distance <= d2
                       /\ d2 < (e.distance + 1) * (e.distance + 1)
                       /\ e.drawn <=> d2 < 250 * 250
                       /\ e.drawn => /\ 250 * e.opacity = 250 * 250 - 250 * e.distance
                                     /\ 0 < e.opacity /\ e.opacity <= 250
                       /\ e.i = e.j => e.drawn /\ e.opacity = 250]_vars

\* a frame that drew a self-pair and left out a pair 250 px or more apart
C5_Witness ==
    /\ netFrames >= 1
    /\ \E k \in 1 .. Len(strokes) :
          strokes[k].i = strokes[k].j /\ strokes[k].drawn
    /\ \E k \in 1 .. Len(strokes) :
          strokes[k].i # strokes[k].j /\ ~strokes[k].drawn

-----------------------------------------------------------------------------
(* Properties of the frame loops                                           *)

NetCall  == NetStart \/ NetAnimate
WaveCall == WaveStart \/ WaveAnimate
ObjCall  == (ObjStart /\ objPage.container) \/ ObjAnimate
InstCall == InstStart \/ InstAnimate

\* C6: in each of the four frame loops an animation-frame request is issued
\* only by a running animate() call and exactly once per call, so at most one
\* frame callback is pending at any moment.
C6_NoOverlap ==
    [][/\ netRaf' <= 1 /\ waveRaf' <= 1 /\ objRaf' <= 1 /\ instRaf' <= 1
       /\ NetCall  => netTick'.requests = 1 /\ netRaf' = 1
       /\ WaveCall => waveTick'.requests = 1 /\ waveRaf' = 1
       /\ ObjCall  => objTick'.requests = 1 /\ objRaf' = 1
       /\ InstCall => instTick'.requests = 1 /\ instRaf' = 1
       /\ ~NetCall  => netRaf' = netRaf
       /\ ~WaveCall => waveRaf' = waveRaf
       /\ ~ObjCall  => objRaf' = objRaf
       /\ ~InstCall => instRaf' = instRaf]_vars

\* the canvas loop after a frame callback has run, its successor pending
C6_Witness ==
    /\ netFrames >= 2
    /\ netRaf = 1
    /\ netTick.requests = 1

\* C7: a frame loop that has started never stops: after every animate() call,
\* one whose body threw included, the next frame callback is pending (and a
\* fair browser then runs it).
C7_LoopNeverStops ==
    /\ netStarted => netRaf >= 1
    /\ waveStarted => waveRaf >= 1
    /\ objStarted /\ objRenderer => objRaf >= 1
    /\ instStarted => instRaf >= 1

\* C8: an animate() call of the colour-wave viewer made while no molecule is
\* loaded (the load pending or failed) writes no colour, sets no dirty flag,
\* raises no error and renders.
C8_InertWithoutMolecule ==
    waveStarted /\ waveLoad \in {"pending", "failed"} =>
        /\ waveTick.writes = 0
        /\ waveTick.dirty = 0
        /\ waveTick.warns = 0
        /\ ~waveTick.threw
        /\ waveTick.rendered
        /\ colors = << >>
        /\ ~needsUpdate

\* frames have run on the colour-wave page and its load has failed
C8_Witness ==
    /\ waveStarted
    /\ waveLoad = "failed"
    /\ elapsedTime >= 2
    /\ waveTick.rendered

\* C9: an animate() call made while the loaded geometry has no colour
\* attribute writes no colour and sets no dirty flag, logs one warning for the
\* geometry, does not throw, renders, and leaves the next frame pending.
C9_MissingAttribute ==
    [][WaveCall /\ atomMeshes # << >> /\ ~atomMeshes[1].geometry.hasColor =>
          /\ waveTick'.writes = 0
          /\ waveTick'.dirty = 0
          /\ waveTick'.warns = Len(atomMeshes)
          /\ ~waveTick'.threw
          /\ waveTick'.rendered
          /\ colors' = colors
          /\ needsUpdate' = needsUpdate
          /\ waveRaf' = 1]_vars

\* a frame has warned about the missing attribute and the next one is pending
C9_Witness ==
    /\ waveLoad = "loaded"
    /\ waveTick.warns >= 1
    /\ waveTick.rendered
    /\ waveRaf = 1

\* C10: once the loader's error callback has run, the status text reports the
\* error, the one load made stays the only one, the element list (the scene
\* content) stays empty, the failure stays, and the next frame stays pending.
C10_LoadFailureTerminal ==
    [][/\ waveLoad' = "failed" =>
            /\ infoText' = "error"
            /\ waveLoads' = 1
            /\ atomMeshes' = << >>
            /\ waveRaf' = 1
       /\ objLoad' = "failed" =>
            /\ objErrorMsg'
            /\ objLoads' = 1
            /\ objScene' = 0
            /\ objRaf' = 1
       /\ waveLoad = "failed" \/ infoText = "error" => waveLoad' = "failed"
       /\ objLoad = "failed" \/ objErrorMsg => objLoad' = "failed"
       /\ waveLoads' <= 1 /\ objLoads' <= 1]_vars

\* frames still run on the colour-wave page whose load has failed
C10_Witness ==
    /\ waveLoad = "failed"
    /\ infoText = "error"
    /\ elapsedTime = MaxTime
    /\ waveTick.rendered
    /\ waveRaf = 1

-----------------------------------------------------------------------------
(* Properties of the colour wave                                           *)

\* the last animate() call wrote the colours of the loaded geometry
ColorsWritten == atomMeshes # << >> /\ waveTick.writes > 0

\* C11: the hue updateColors writes for an element of normalized height h at
\* elapsed time t is (h * 0.1 + t * 0.5) mod 1, a value in [0, 1) fixed by h
\* and t alone (here h in thousandths, t in tenths of a second, the hue in
\* ten-thousandths); h = 0.5 at t = 2.0 gives 0.05.
C11_HueFormula ==
    ColorsWritten =>
        LET item == atomMeshes[1]
            ys   == item.geometry.ys
        IN  /\ Len(colors) = Len(ys)
            /\ \A i \in 1 .. Len(ys) :
                  LET h == IF item.yRange > 0
                             THEN ((ys[i] - item.yMin) * 1000) \div item.yRange
                             ELSE 500
                      sum == h + 500 * elapsedTime
                  IN  /\ 0 <= h /\ h <= 1000
                      /\ 0 <= colors[i] /\ colors[i] < 10000
                      /\ \E n \in 0 .. 2 : sum = colors[i] + n * 10000
                      /\ h = 500 /\ elapsedTime = 20 => colors[i] = 500

\* the one-element buffer of end-to-end scenario 1 (normalized height 0.5)
\* coloured at elapsed time 2.0 s
C11_Witness ==
    /\ ColorsWritten
    /\ elapsedTime = 20
    /\ Len(atomMeshes[1].geometry.ys) = 1
    /\ colors = << 500 >>

\* C12: the hues written at elapsed time t + 1/S, S = 0.5 (2 s, 20 tenths
\* of a second later), are the hues written at time t.
C12_HuePeriod ==
    [][/\ WaveCall
       /\ ColorsWritten
       /\ waveTick'.writes > 0
       /\ elapsedTime' = elapsedTime + 20
       => colors' = colors]_vars

\* colours written at a time a full period after the molecule could first
\* have been coloured, past the wrap of the hue
C12_Witness ==
    /\ ColorsWritten
    /\ elapsedTime >= 21
    /\ \E i \in 1 .. Len(colors) : colors[i] < 500 * elapsedTime

\* the least and greatest y of the loaded geometry
GeometryMinY == CHOOSE m \in YValues :
    /\ \E i \in 1 .. Len(atomMeshes[1].geometry.ys) : atomMeshes[1].geometry.ys[i] = m
    /\ \A i \in 1 .. Len(atomMeshes[1].geometry.ys) : atomMeshes[1].geometry.ys[i] >= m

GeometryMaxY == CHOOSE m \in YValues :
    /\ \E i \in 1 .. Len(atomMeshes[1].geometry.ys) : atomMeshes[1].geometry.ys[i] = m
    /\ \A i \in 1 .. Len(atomMeshes[1].geometry.ys) : atomMeshes[1].geometry.ys[i] <= m

\* C13: the normalized height behind every written hue is exactly 0.5 when
\* the molecule's y extent is zero, and (y - yMin) / yRange, a value in
\* [0, 1], when the extent is positive (heights in thousandths).
C13_NormalizedHeight ==
    ColorsWritten =>
        LET item == atomMeshes[1]
            ys   == item.geometry.ys
        IN  /\ item.yMin = GeometryMinY
            /\ item.yRange = GeometryMaxY - GeometryMinY
            /\ \A i \in 1 .. Len(ys) :
                  LET h == (colors[i] + 30000 - 500 * elapsedTime) % 10000
                  IN  /\ GeometryMaxY = GeometryMinY => h = 500
                      /\ GeometryMaxY > GeometryMinY =>
                            /\ h * (GeometryMaxY - GeometryMinY)
                                 = (ys[i] - GeometryMinY) * 1000
                            /\ 0 <= h /\ h <= 1000

\* a coloured molecule all of whose atoms have the same y
C13_WitnessFlat ==
    /\ ColorsWritten
    /\ Len(colors) >= 2
    /\ GeometryMaxY = GeometryMinY

(* Conserved quantities of a particle *)
Abs(n) == IF n < 0 THEN -n ELSE n

\* C14: an update changes neither the magnitude of directionX, nor that of
\* directionY, nor the radius of any particle; only the signs of the
\* velocity components change, also on a tick where a wall bounce and an
\* obstacle bounce both fire.
C14_SpeedConserved ==
    [][UpdateStep =>
         /\ Len(particlesArray') = Len(particlesArray)
         /\ \A i \in Indices :
               LET p == particlesArray[i]
                   q == particlesArray'[i]
               IN  /\ Abs(q.directionX) = Abs(p.directionX)
                   /\ Abs(q.directionY) = Abs(p.directionY)
                   /\ q.radius = p.radius
                   /\ q.radius = radius]_vars

\* a particle after a tick on which the horizontal wall test held whatever
\* the sign of directionX was and the left or right branch of the obstacle
\* chain fired as well
C14_Witness ==
    /\ page = "net"
    /\ netFrames >= 1
    /\ \E i \in Indices :
          LET q == particlesArray[i]
          IN  /\ q.directionX # 0
              /\ q.collision
              /\ \/ q.x + q.radius < titleBox.left + margin
                 \/ q.x - q.radius > titleBox.left + titleBox.width - margin
              /\ WallHit(q.x, q.radius, q.directionX, canvas.width)
              /\ WallHit(q.x, q.radius, -q.directionX, canvas.width)

(* Properties of the OBJ viewer's start *)
\* C15: when the page has no container element, init() returns before the
\* renderer is created: no load is started, no resize listener is registered
\* and the animation loop never runs; and whenever the loop has run or has a
\* frame pending, init() had created the scene, camera, renderer and controls.
C15_GuardedStart ==
    page = "obj" =>
        /\ ~objPage.container =>
              /\ ~objRenderer
              /\ objLoad = "none"
              /\ objLoads = 0
              /\ objScene = 0
              /\ ~objErrorMsg
              /\ ~objListener
              /\ objRaf = 0
              /\ objTick = NoFrame
        /\ objRaf > 0 \/ objTick # NoFrame =>
              /\ objStarted
              /\ objPage.container
              /\ objRenderer
              /\ objListener

\* the script has run to its end on a page without the container
C15_Witness ==
    /\ page = "obj"
    /\ objStarted
    /\ ~objPage.container

====
